---- MODULE Spec2Model ----
(***************************************************************************)
(* A model of the todo-app core: the Task entity (src/models/Task.js), the *)
(* TaskRepository persistence layer (src/unnamed/part_000) and the         *)
(* TaskService business layer (src/services/TaskService.js).               *)
(*                                                                         *)
(* Strings are sequences of runs [ch, n] (run-length encoded), so that a   *)
(* 201-character title is a value of the model.  An optional property of a *)
(* JavaScript object is a sequence of length 0 (undefined) or 1.           *)
(***************************************************************************)
EXTENDS Integers, Sequences, FiniteSets, TLC

VARIABLES
    tasks,          \* TaskRepository.#tasks: a Map in insertion order, as a sequence of Tasks
    initialized,    \* TaskRepository.#initialized
    localStorage,   \* the value stored under #storageKey (or NoItem)
    result          \* what the last call did: its name, outcome, return value, setItem calls

vars == <<tasks, initialized, localStorage, result>>

-----------------------------------------------------------------------------
(* Bounds of the model *)

\* longest list handed to deleteMany, saveMany, reorderTasks
MaxBatch == 2

\* Task.js line 66: a trimmed title has at most 200 characters
MaxTitleLength == 200

-----------------------------------------------------------------------------
(* Strings *)

Run(c, k) == [ch |-> c, n |-> k]

RECURSIVE Length(_)
Length(s) == IF s = <<>> THEN 0 ELSE Head(s).n + Length(Tail(s))

RECURSIVE TrimStart(_)
TrimStart(s) ==
    IF s = <<>> THEN s
    ELSE IF Head(s).ch = " " THEN TrimStart(Tail(s)) ELSE s

RECURSIVE TrimEnd(_)
TrimEnd(s) ==
    IF s = <<>> THEN s
    ELSE IF s[Len(s)].ch = " " THEN TrimEnd(SubSeq(s, 1, Len(s) - 1)) ELSE s

\* String.prototype.trim
trim(s) == TrimEnd(TrimStart(s))

\* a string of runs with neighbouring runs of one character joined
RECURSIVE Canonical(_)
Canonical(s) ==
    IF Len(s) < 2 THEN s
    ELSE IF s[1].ch = s[2].ch
    THEN Canonical(<<Run(s[1].ch, s[1].n + s[2].n)>> \o SubSeq(s, 3, Len(s)))
    ELSE <<s[1]>> \o Canonical(Tail(s))

LowerOf(c) ==
    CASE c = "A" -> "a"
      [] c = "B" -> "b"
      [] OTHER -> c

\* String.prototype.toLowerCase
toLowerCase(s) == Canonical([i \in 1..Len(s) |-> Run(LowerOf(s[i].ch), s[i].n)])

\* String.prototype.includes, on strings whose neighbouring runs differ: the
\* first and the last run of part fit into runs of s, those between are runs
\* of s
includes(s, part) ==
    LET k == Len(part) IN
    IF k = 0 THEN TRUE
    ELSE \E j \in 1..(Len(s) - k + 1) :
            /\ s[j].ch = part[1].ch
            /\ s[j].n >= part[1].n
            /\ k > 1 => /\ \A i \in 2..(k - 1) : s[j + i - 1] = part[i]
                        /\ s[j + k - 1].ch = part[k].ch
                        /\ s[j + k - 1].n >= part[k].n

\* JavaScript values a title can be
Str(s) == [type |-> "string", str |-> s]
Undefined == [type |-> "undefined", str |-> <<>>]
Number == [type |-> "number", str |-> <<>>]

\* an optional property
None == <<>>
Some(v) == <<v>>

-----------------------------------------------------------------------------
(* Task (src/models/Task.js) *)

\* the result of a call that may throw
Threw(msg) == [threw |-> TRUE, error |-> msg, value |-> <<>>]
Returned(v) == [threw |-> FALSE, error |-> "", value |-> v]

\* validateTitle, were it to set no limit to the length
validateTitle_NoLimit(title) ==
    IF title.type # "string" \/ title.str = <<>>
    THEN "Titulo e obrigatorio e deve ser uma string"
    ELSE LET t == trim(title.str) IN
         IF Length(t) = 0 THEN "Titulo nao pode ser vazio" ELSE "ok"

validateTitle(title) ==
    IF title.type # "string" \/ title.str = <<>>
    THEN "Titulo e obrigatorio e deve ser uma string"
    ELSE LET t == trim(title.str) IN
         IF Length(t) = 0 THEN "Titulo nao pode ser vazio"
         ELSE IF Length(t) > MaxTitleLength THEN "Titulo nao pode exceder 200 caracteres"
         ELSE "ok"

\* Task, were the constructor to leave completed at its default
Task_IgnoresCompleted(data, uuid, now) ==
    IF validateTitle(data.title) # "ok" THEN Threw(validateTitle(data.title))
    ELSE Returned(
        [id        |-> IF data.id = None \/ data.id[1] = "" THEN uuid ELSE data.id[1],
         title     |-> trim(data.title.str),
         completed |-> FALSE,
         createdAt |-> IF data.createdAt = None \/ data.createdAt[1] = 0
                       THEN now ELSE data.createdAt[1],
         order     |-> IF data.order = None THEN 0 ELSE data.order[1]])

\* new Task(data); uuid and now are what crypto.randomUUID() and Date.now()
\* return if the constructor calls them
Task(data, uuid, now) ==
    IF validateTitle(data.title) # "ok" THEN Threw(validateTitle(data.title))
    ELSE Returned(
        [id        |-> IF data.id = None \/ data.id[1] = "" THEN uuid ELSE data.id[1],
         title     |-> trim(data.title.str),
         completed |-> IF data.completed = None THEN FALSE ELSE data.completed[1],
         createdAt |-> IF data.createdAt = None \/ data.createdAt[1] = 0
                       THEN now ELSE data.createdAt[1],
         order     |-> IF data.order = None THEN 0 ELSE data.order[1]])

toJSON(t) ==
    [id        |-> Some(t.id),
     title     |-> Str(t.title),
     completed |-> Some(t.completed),
     createdAt |-> Some(t.createdAt),
     order     |-> Some(t.order)]

\* the values randomUUID() and Date.now() stand for where the constructor is
\* handed an id and a createdAt and so never calls them
NoUuid == ""
NoNow == 0

fromJSON(data) == Task(data, NoUuid, NoNow)

updateTitle(t, newTitle) ==
    Task([toJSON(t) EXCEPT !.title = newTitle], NoUuid, NoNow)

\* updateOrder, were it to leave createdAt out of what it hands the constructor
updateOrder_DropsCreatedAt(t, newOrder) ==
    Task([toJSON(t) EXCEPT !.order = newOrder, !.createdAt = None], NoUuid, NoNow)

updateOrder(t, newOrder) ==
    Task([toJSON(t) EXCEPT !.order = newOrder], NoUuid, NoNow)

\* toggleCompleted, were it to leave order out of what it hands the constructor
toggleCompleted_DefaultOrder(t) ==
    Task([toJSON(t) EXCEPT !.completed = Some(~t.completed), !.order = None],
         NoUuid, NoNow)

toggleCompleted(t) ==
    Task([toJSON(t) EXCEPT !.completed = Some(~t.completed)], NoUuid, NoNow)

-----------------------------------------------------------------------------
(* JSON text, as far as the program reads it: unparsable text, a value that *)
(* is no array, or an array of elements, each an object or null            *)

Element(data) == [type |-> "object", fields |-> data]
NullElement == [type |-> "null", fields |-> <<>>]

ArrayText(items) == [json |-> "array", items |-> items]
ObjectText == [json |-> "object", items |-> <<>>]
InvalidText == [json |-> "invalid", items |-> <<>>]
\* localStorage.getItem of a key that was never set
NoItem == [json |-> "none", items |-> <<>>]

\* JSON.stringify of an array of toJSON() objects (indentation does not
\* change what JSON.parse reads back)
JSONstringify(tasksArray) ==
    ArrayText([i \in 1..Len(tasksArray) |-> Element(tasksArray[i])])

JSONparse(text) ==
    IF text.json \in {"invalid", "none"} THEN Threw("SyntaxError")
    ELSE Returned(text)

\* Task.fromJSON of one element of a parsed array: destructuring null throws
elementFromJSON(e) ==
    IF e.type # "object" THEN Threw("TypeError") ELSE fromJSON(e.fields)

-----------------------------------------------------------------------------
(* Map, in insertion order *)

MapHas(m, id) == \E i \in 1..Len(m) : m[i].id = id

MapIndex(m, id) == CHOOSE i \in 1..Len(m) : m[i].id = id

MapGet(m, id) == m[MapIndex(m, id)]

\* Map.prototype.set: an existing key keeps its position
MapSet(m, t) ==
    IF MapHas(m, t.id) THEN [m EXCEPT ![MapIndex(m, t.id)] = t] ELSE Append(m, t)

MapDelete(m, id) == SelectSeq(m, LAMBDA t : t.id # id)

RECURSIVE MapDeleteAll(_, _)
MapDeleteAll(m, ids) ==
    IF ids = <<>> THEN m ELSE MapDeleteAll(MapDelete(m, Head(ids)), Tail(ids))

\* Array.from(map.values()).map(task => task.toJSON())
tasksArrayOf(m) == [i \in 1..Len(m) |-> toJSON(m[i])]

-----------------------------------------------------------------------------
(* TaskRepository (src/unnamed/part_000) *)

\* what a call leaves behind: the repository method it ran, the collection,
\* the stored text, and its status / error / return value / the outcome of
\* each setItem call in order
Out(method, ts, st, status, err, ret, w) ==
    [method |-> method, tasks |-> ts, storage |-> st, status |-> status,
     error |-> err, ret |-> ret, writes |-> w]

\* loadElements, were one try / catch to enclose the whole forEach
RECURSIVE loadElements_StopsAtInvalid(_, _)
loadElements_StopsAtInvalid(m, items) ==
    IF items = <<>> THEN m
    ELSE LET t == elementFromJSON(Head(items)) IN
         IF t.threw THEN m
         ELSE loadElements_StopsAtInvalid(MapSet(m, t.value), Tail(items))

\* #load: the elements of the stored array that construct, later ones
\* replacing earlier ones with the same id
RECURSIVE loadElements(_, _)
loadElements(m, items) ==
    IF items = <<>> THEN m
    ELSE LET t == elementFromJSON(Head(items)) IN
         loadElements(IF t.threw THEN m ELSE MapSet(m, t.value), Tail(items))

load(m, storage) ==
    IF storage.json = "none" THEN Returned(m)
    ELSE LET parsed == JSONparse(storage) IN
         IF parsed.threw THEN Threw("Dados corrompidos no localStorage: JSON invalido")
         ELSE IF parsed.value.json # "array"
         THEN Threw("Dados corrompidos: esperado um array de tasks")
         ELSE Returned(loadElements(<<>>, parsed.value.items))

\* #initialize, from the empty Map the constructor made
initialize(storage) ==
    LET l == load(<<>>, storage) IN IF l.threw THEN <<>> ELSE l.value

\* #persist: setItemOk says whether localStorage.setItem returns or throws
persist(m, storage, setItemOk) ==
    IF setItemOk
    THEN [threw |-> FALSE, storage |-> JSONstringify(tasksArrayOf(m))]
    ELSE [threw |-> TRUE, storage |-> storage]

\* an argument of save / saveMany: an instance of Task or some other object
Instance(t) == [instanceOfTask |-> TRUE, fields |-> t]
PlainObject(t) == [instanceOfTask |-> FALSE, fields |-> t]

validateTask(obj) == obj.instanceOfTask

save(m, storage, obj, setItemOk) ==
    IF ~validateTask(obj) THEN Out("save", m, storage, "error", "TypeError", None, <<>>)
    ELSE LET task == obj.fields
             isNewtask == ~MapHas(m, task.id)
             set == MapSet(m, task)
             p == persist(set, storage, setItemOk)
         IN  IF ~p.threw
             THEN Out("save", set, p.storage, "ok", "", task, <<setItemOk>>)
             ELSE Out("save", IF isNewtask THEN MapDelete(set, task.id)
                                   ELSE MapSet(set, MapGet(m, task.id)),
                      p.storage, "error", "Falha ao salvar a tarefa", None, <<setItemOk>>)

exists(m, id) == MapHas(m, id)

findAll(m) == [i \in 1..Len(m) |-> fromJSON(toJSON(m[i])).value]

findById(m, id) ==
    IF MapHas(m, id) THEN Some(fromJSON(toJSON(MapGet(m, id))).value) ELSE None

delete(m, storage, id, setItemOk) ==
    IF ~MapHas(m, id) THEN Out("delete", m, storage, "ok", "", FALSE, <<>>)
    ELSE LET taskToDelete == MapGet(m, id)
             removed == MapDelete(m, id)
             p == persist(removed, storage, setItemOk)
         IN  IF ~p.threw
             THEN Out("delete", removed, p.storage, "ok", "", TRUE, <<setItemOk>>)
             ELSE Out("delete", MapSet(removed, taskToDelete), p.storage, "error",
                      "Falha ao persistir", None, <<setItemOk>>)

\* an argument that should be an array
Array(items) == [isArray |-> TRUE, items |-> items]
NotAnArray == [isArray |-> FALSE, items |-> <<>>]

\* deleteMany, were it to count the listed ids instead of the deletions
deleteMany_CountsListed(m, storage, ids, setItemOk) ==
    IF ~ids.isArray THEN Out("deleteMany", m, storage, "error", "TypeError", None, <<>>)
    ELSE LET previousTasks == m
             removed == MapDeleteAll(m, ids.items)
             deletedCount == Len(ids.items)
             p == persist(removed, storage, setItemOk)
         IN  IF deletedCount = 0 THEN Out("deleteMany", removed, storage, "ok", "", 0, <<>>)
             ELSE IF ~p.threw
             THEN Out("deleteMany", removed, p.storage, "ok", "", deletedCount, <<setItemOk>>)
             ELSE Out("deleteMany", previousTasks, p.storage, "error",
                      "Falha ao remover multiplas tarefas", None, <<setItemOk>>)

deleteMany(m, storage, ids, setItemOk) ==
    IF ~ids.isArray THEN Out("deleteMany", m, storage, "error", "TypeError", None, <<>>)
    ELSE LET previousTasks == m
             removed == MapDeleteAll(m, ids.items)
             deletedCount == Len(m) - Len(removed)
             p == persist(removed, storage, setItemOk)
         IN  IF deletedCount = 0 THEN Out("deleteMany", removed, storage, "ok", "", 0, <<>>)
             ELSE IF ~p.threw
             THEN Out("deleteMany", removed, p.storage, "ok", "", deletedCount, <<setItemOk>>)
             ELSE Out("deleteMany", previousTasks, p.storage, "error",
                      "Falha ao remover multiplas tarefas", None, <<setItemOk>>)

\* clear, were it not to restore previousTasks when #persist throws
clear_NoRestore(m, storage, setItemOk) ==
    LET count == Len(m)
        p == persist(<<>>, storage, setItemOk)
    IN  IF count = 0 THEN Out("clear", m, storage, "ok", "", 0, <<>>)
        ELSE IF ~p.threw THEN Out("clear", <<>>, p.storage, "ok", "", count, <<setItemOk>>)
        ELSE Out("clear", <<>>, p.storage, "error",
                 "Falha ao limpar armazenamento", None, <<setItemOk>>)

\* clear, were it to persist an empty collection as well
clear_AlwaysPersists(m, storage, setItemOk) ==
    LET previousTasks == m
        count == Len(m)
        p == persist(<<>>, storage, setItemOk)
    IN  IF ~p.threw THEN Out("clear", <<>>, p.storage, "ok", "", count, <<setItemOk>>)
        ELSE Out("clear", previousTasks, p.storage, "error",
                 "Falha ao limpar armazenamento", None, <<setItemOk>>)

clear(m, storage, setItemOk) ==
    LET previousTasks == m
        count == Len(m)
        p == persist(<<>>, storage, setItemOk)
    IN  IF count = 0 THEN Out("clear", m, storage, "ok", "", 0, <<>>)
        ELSE IF ~p.threw THEN Out("clear", <<>>, p.storage, "ok", "", count, <<setItemOk>>)
        ELSE Out("clear", previousTasks, p.storage, "error",
                 "Falha ao limpar armazenamento", None, <<setItemOk>>)

\* saveManySet, were it to pass over the elements that are no Task
RECURSIVE saveManySet_SkipsInvalid(_, _)
saveManySet_SkipsInvalid(m, objs) ==
    IF objs = <<>> THEN Returned(m)
    ELSE saveManySet_SkipsInvalid(IF validateTask(Head(objs)) THEN MapSet(m, Head(objs).fields)
                                  ELSE m,
                                  Tail(objs))

\* the elements of the batch up to the first that is no Task are set before
\* validateTask throws
RECURSIVE saveManySet(_, _)
saveManySet(m, objs) ==
    IF objs = <<>> THEN Returned(m)
    ELSE IF ~validateTask(Head(objs)) THEN Threw("TypeError")
    ELSE saveManySet(MapSet(m, Head(objs).fields), Tail(objs))

saveMany(m, storage, objs, setItemOk) ==
    IF ~objs.isArray THEN Out("saveMany", m, storage, "error", "TypeError", None, <<>>)
    ELSE LET backupTasks == m
             set == saveManySet(m, objs.items)
         IN  IF set.threw
             THEN Out("saveMany", backupTasks, storage, "error",
                      "Falha ao salvar multiplas tarefas", None, <<>>)
             ELSE LET p == persist(set.value, storage, setItemOk) IN
                  IF ~p.threw
                  THEN Out("saveMany", set.value, p.storage, "ok", "", Len(objs.items), <<setItemOk>>)
                  ELSE Out("saveMany", backupTasks, p.storage, "error",
                           "Falha ao salvar multiplas tarefas", None, <<setItemOk>>)

export(m) == JSONstringify(tasksArrayOf(m))

\* importElements, were import to skip the elements that do not construct,
\* as #load does
importElements_SkipsInvalid(tempMap, items) == Returned(loadElements(tempMap, items))

\* the forEach of import: the first element that does not construct throws
RECURSIVE importElements(_, _)
importElements(tempMap, items) ==
    IF items = <<>> THEN Returned(tempMap)
    ELSE LET t == elementFromJSON(Head(items)) IN
         IF t.threw THEN t
         ELSE importElements(MapSet(tempMap, t.value), Tail(items))

\* import writes twice: setItem directly (firstOk), then #persist (secondOk)
import(m, storage, jsonString, firstOk, secondOk) ==
    LET previousTasks == m
        parsed == JSONparse(jsonString)
        failed(st, w) == Out("import", previousTasks, st, "error", "Falha ao importar tarefas", None, w)
    IN  IF parsed.threw THEN failed(storage, <<>>)
        ELSE IF parsed.value.json # "array" THEN failed(storage, <<>>)
        ELSE LET temp == importElements(<<>>, parsed.value.items) IN
             IF temp.threw THEN failed(storage, <<>>)
             ELSE IF ~firstOk THEN failed(storage, <<firstOk>>)
             ELSE LET written == JSONstringify(tasksArrayOf(temp.value))
                      p == persist(temp.value, written, secondOk)
                  IN  IF p.threw THEN failed(p.storage, <<firstOk, secondOk>>)
                      ELSE Out("import", temp.value, p.storage, "ok", "", Len(temp.value),
                               <<firstOk, secondOk>>)

-----------------------------------------------------------------------------
(* TaskService (src/services/TaskService.js) *)

\* the methods class TaskRepository defines; the service also calls count
\* and countBy
RepositoryMethods ==
    {"save", "exists", "findAll", "findBy", "findById", "delete", "deleteMany",
     "clear", "saveMany", "export", "import", "getStats"}

FilterNames == {"all", "completed", "pending"}
SortNames == {"title", "createdAt", "order"}

\* #filterStrategies[filter](tasks)
filterStrategy(filter, ts) ==
    CASE filter = "all" -> ts
      [] filter = "completed" -> SelectSeq(ts, LAMBDA t : t.completed)
      [] filter = "pending" -> SelectSeq(ts, LAMBDA t : ~t.completed)

\* collation weights of the characters the model uses: letters compare by
\* the alphabet first, the space before every letter, and only then lower
\* case before upper case
PrimaryWeight(c) ==
    CASE c = " " -> 0
      [] c \in {"a", "A"} -> 1
      [] c \in {"b", "B"} -> 2

CaseWeight(c) == IF c \in {"A", "B"} THEN 1 ELSE 0

\* the rest of a string of runs after its first k characters (k at most the
\* length of the first run)
DropChars(x, k) ==
    IF Head(x).n = k THEN Tail(x) ELSE <<[Head(x) EXCEPT !.n = @ - k]>> \o Tail(x)

\* character by character, on runs [w, n] of n characters of weight w
RECURSIVE CompareWeights(_, _)
CompareWeights(x, y) ==
    IF x = <<>> /\ y = <<>> THEN 0
    ELSE IF x = <<>> THEN -1
    ELSE IF y = <<>> THEN 1
    ELSE IF Head(x).w < Head(y).w THEN -1
    ELSE IF Head(x).w > Head(y).w THEN 1
    ELSE LET k == IF Head(x).n < Head(y).n THEN Head(x).n ELSE Head(y).n IN
         CompareWeights(DropChars(x, k), DropChars(y, k))

\* String.prototype.localeCompare
localeCompare(a, b) ==
    LET primary == CompareWeights(
                       [i \in 1..Len(a) |-> [w |-> PrimaryWeight(a[i].ch), n |-> a[i].n]],
                       [i \in 1..Len(b) |-> [w |-> PrimaryWeight(b[i].ch), n |-> b[i].n]])
    IN  IF primary # 0 THEN primary
        ELSE CompareWeights(
                 [i \in 1..Len(a) |-> [w |-> CaseWeight(a[i].ch), n |-> a[i].n]],
                 [i \in 1..Len(b) |-> [w |-> CaseWeight(b[i].ch), n |-> b[i].n]])

\* sortStrategy, were the comparators to subtract the other way round
sortStrategy_Descending(sortedBy, a, b) ==
    CASE sortedBy = "title" -> localeCompare(b.title, a.title)
      [] sortedBy = "createdAt" -> b.createdAt - a.createdAt
      [] sortedBy = "order" -> b.order - a.order

\* #sortStrategies[sortedBy](a, b)
sortStrategy(sortedBy, a, b) ==
    CASE sortedBy = "title" -> localeCompare(a.title, b.title)
      [] sortedBy = "createdAt" -> a.createdAt - b.createdAt
      [] sortedBy = "order" -> a.order - b.order

\* Array.prototype.sort is stable: x goes after every element that does not
\* compare greater than it
RECURSIVE insertSorted(_, _, _)
insertSorted(sortedBy, sorted, x) ==
    IF sorted = <<>> THEN <<x>>
    ELSE IF sortStrategy(sortedBy, Head(sorted), x) > 0 THEN <<x>> \o sorted
    ELSE <<Head(sorted)>> \o insertSorted(sortedBy, Tail(sorted), x)

RECURSIVE sort(_, _, _)
sort(sortedBy, done, rest) ==
    IF rest = <<>> THEN done
    ELSE sort(sortedBy, insertSorted(sortedBy, done, Head(rest)), Tail(rest))

\* a query: it reads the collection and leaves everything as it is
Query(m, storage, status, err, ret) == Out("none", m, storage, status, err, ret, <<>>)

ensureTaskExists(m, id) == findById(m, id)

NotFound == "Task nao encontrada"

createTask(m, storage, title, uuid, now, setItemOk) ==
    LET task == Task([id |-> None, title |-> title, completed |-> None,
                      createdAt |-> None, order |-> None], uuid, now)
    IN  IF task.threw THEN Out("none", m, storage, "error", task.error, None, <<>>)
        ELSE save(m, storage, Instance(task.value), setItemOk)

\* updateTask, were it to toggle whenever completed is given
updateTask_TogglesWhenGiven(m, storage, taskId, updates, setItemOk) ==
    LET found == ensureTaskExists(m, taskId) IN
    IF found = None THEN Out("none", m, storage, "error", NotFound, None, <<>>)
    ELSE LET currentTask == found[1]
             titled == IF updates.title # None
                       THEN updateTitle(currentTask, updates.title[1])
                       ELSE Returned(currentTask)
             toggled == IF titled.threw THEN titled
                        ELSE IF updates.completed # None
                        THEN toggleCompleted(titled.value)
                        ELSE titled
             ordered == IF toggled.threw THEN toggled
                        ELSE IF updates.order # None
                        THEN updateOrder(toggled.value, updates.order)
                        ELSE toggled
         IN  IF ordered.threw
             THEN Out("none", m, storage, "error", "Falha ao atualizar task", None, <<>>)
             ELSE LET saved == save(m, storage, Instance(ordered.value), setItemOk) IN
                  IF saved.status = "error"
                  THEN [saved EXCEPT !.error = "Falha ao atualizar task"]
                  ELSE saved

updateTask(m, storage, taskId, updates, setItemOk) ==
    LET found == ensureTaskExists(m, taskId) IN
    IF found = None THEN Out("none", m, storage, "error", NotFound, None, <<>>)
    ELSE LET currentTask == found[1]
             titled == IF updates.title # None
                       THEN updateTitle(currentTask, updates.title[1])
                       ELSE Returned(currentTask)
             toggled == IF titled.threw THEN titled
                        ELSE IF updates.completed # None
                                /\ updates.completed[1] # currentTask.completed
                        THEN toggleCompleted(titled.value)
                        ELSE titled
             ordered == IF toggled.threw THEN toggled
                        ELSE IF updates.order # None
                        THEN updateOrder(toggled.value, updates.order)
                        ELSE toggled
         IN  IF ordered.threw
             THEN Out("none", m, storage, "error", "Falha ao atualizar task", None, <<>>)
             ELSE LET saved == save(m, storage, Instance(ordered.value), setItemOk) IN
                  IF saved.status = "error"
                  THEN [saved EXCEPT !.error = "Falha ao atualizar task"]
                  ELSE saved

toggleTaskCompletion(m, storage, taskId, setItemOk) ==
    LET found == ensureTaskExists(m, taskId) IN
    IF found = None THEN Out("none", m, storage, "error", NotFound, None, <<>>)
    ELSE save(m, storage, Instance(toggleCompleted(found[1]).value), setItemOk)

\* tasksToUpdate, were reorderTasks to pass over the ids that are not stored
RECURSIVE tasksToUpdate_SkipsMissing(_, _)
tasksToUpdate_SkipsMissing(m, items) ==
    IF items = <<>> THEN Returned(<<>>)
    ELSE LET found == findById(m, Head(items).id)
             rest == tasksToUpdate_SkipsMissing(m, Tail(items))
         IN  IF found = None THEN rest
             ELSE Returned(<<Instance(updateOrder(found[1], Head(items).order).value)>>
                           \o rest.value)

\* the map of reorderTasks: the first id that is not stored throws
RECURSIVE tasksToUpdate(_, _)
tasksToUpdate(m, items) ==
    IF items = <<>> THEN Returned(<<>>)
    ELSE LET found == ensureTaskExists(m, Head(items).id) IN
         IF found = None THEN Threw(NotFound)
         ELSE LET rest == tasksToUpdate(m, Tail(items)) IN
              IF rest.threw THEN rest
              ELSE Returned(<<Instance(updateOrder(found[1], Head(items).order).value)>>
                            \o rest.value)

reorderTasks(m, storage, reorderedTasks, setItemOk) ==
    IF ~reorderedTasks.isArray
    THEN Out("none", m, storage, "error", "TypeError", None, <<>>)
    ELSE LET batch == tasksToUpdate(m, reorderedTasks.items) IN
         IF batch.threw THEN Out("none", m, storage, "error", batch.error, None, <<>>)
         ELSE saveMany(m, storage, Array(batch.value), setItemOk)

\* deleteTask, were it to hand the id to the repository unchecked
deleteTask_Unchecked(m, storage, taskId, setItemOk) ==
    delete(m, storage, taskId, setItemOk)

deleteTask(m, storage, taskId, setItemOk) ==
    IF ensureTaskExists(m, taskId) = None
    THEN Out("none", m, storage, "error", NotFound, None, <<>>)
    ELSE delete(m, storage, taskId, setItemOk)

\* clearCompleted, were it to delegate to clear() as clearAll does
clearCompleted_ClearsAll(m, storage, setItemOk) == clear(m, storage, setItemOk)

clearCompleted(m, storage, setItemOk) ==
    LET completedTasks == SelectSeq(findAll(m), LAMBDA t : t.completed)
        ids == [i \in 1..Len(completedTasks) |-> completedTasks[i].id]
    IN  deleteMany(m, storage, Array(ids), setItemOk)

getTasks(m, filter) ==
    IF filter \notin FilterNames THEN Threw("Filtro invalido")
    ELSE Returned(filterStrategy(filter, findAll(m)))

getTasksSorted(m, sortedBy, filter) ==
    LET ts == getTasks(m, filter) IN
    IF ts.threw THEN ts
    ELSE IF sortedBy \notin SortNames THEN Threw("Criterio de ordenacao invalido")
    ELSE Returned(sort(sortedBy, <<>>, ts.value))

getTaskById(m, taskId) == findById(m, taskId)

\* searchTasks, were it to lower the case of the titles only
searchTasks_TermAsGiven(m, searchTerm) ==
    IF searchTerm.type # "string" \/ searchTerm.str = <<>> THEN Returned(<<>>)
    ELSE LET normalizedTerm == trim(searchTerm.str) IN
         Returned(SelectSeq(findAll(m),
                            LAMBDA task : includes(toLowerCase(task.title), normalizedTerm)))

searchTasks(m, searchTerm) ==
    IF searchTerm.type # "string" \/ searchTerm.str = <<>> THEN Returned(<<>>)
    ELSE LET normalizedTerm == toLowerCase(trim(searchTerm.str)) IN
         Returned(SelectSeq(findAll(m),
                            LAMBDA task : includes(toLowerCase(task.title), normalizedTerm)))

\* Math.round(completed / total * 100)
completionRate(completed, total) ==
    IF total > 0 THEN (200 * completed + total) \div (2 * total) ELSE 0

\* this.#repository.count and countBy are not methods of TaskRepository:
\* calling them throws a TypeError
getStatistics(m) ==
    IF "count" \notin RepositoryMethods \/ "countBy" \notin RepositoryMethods
    THEN Threw("TypeError: this.#repository.count is not a function")
    ELSE LET total == Len(m)
             completed == Len(SelectSeq(m, LAMBDA t : t.completed))
         IN  Returned([total |-> total, completed |-> completed,
                       pending |-> total - completed,
                       completionRate |-> completionRate(completed, total)])

-----------------------------------------------------------------------------
(* The inputs of the calls *)

Ids == {"t1", "t2"}
Times == {1, 2}

sA == <<Run("a", 1)>>
\* the longest valid title, the same with spaces around it, and one longer
sB == <<Run("B", MaxTitleLength)>>
sPaddedB == <<Run(" ", 1), Run("B", MaxTitleLength), Run(" ", 2)>>
sBlank == <<Run(" ", 3)>>
sTooLong == <<Run("B", MaxTitleLength + 1)>>

InvalidTitles == {Undefined, Number, Str(<<>>), Str(sBlank), Str(sTooLong)}
TitleInputs == {Str(sA), Str(sPaddedB)} \cup InvalidTitles

\* sequences over S of length at most n
RECURSIVE SeqsUpTo(_, _)
SeqsUpTo(S, n) ==
    IF n = 0 THEN {<<>>}
    ELSE LET shorter == SeqsUpTo(S, n - 1) IN
         shorter \cup {Append(q, x) : q \in shorter, x \in S}

InsertAt(q, i, x) == SubSeq(q, 1, i - 1) \o <<x>> \o SubSeq(q, i, Len(q))

Record(id, title, completed, createdAt, order) ==
    [id |-> Some(id), title |-> title, completed |-> Some(completed),
     createdAt |-> Some(createdAt), order |-> Some(order)]

\* records in the persisted format, as export() writes them
ValidElements ==
    {Element(Record("t1", Str(sA), FALSE, 1, 0)),
     Element(Record("t2", Str(sB), TRUE, 2, 1))}

\* arrays with a record whose title has spaces around it
PaddedArrays ==
    {<<Element(Record("t1", Str(sPaddedB), TRUE, 2, 1))>>,
     <<Element(Record("t1", Str(sA), FALSE, 1, 0)),
       Element(Record("t1", Str(sPaddedB), TRUE, 2, 1))>>}

\* elements Task.fromJSON rejects
InvalidElements ==
    {Element(Record("t2", title, FALSE, 1, 0)) : title \in InvalidTitles}
    \cup {NullElement}

\* arrays of valid elements, and arrays with one invalid element anywhere
ArrayInputs ==
    SeqsUpTo(ValidElements, MaxBatch)
    \cup PaddedArrays
    \cup UNION {{InsertAt(q, i, x) : i \in 1..(Len(q) + 1), x \in InvalidElements} :
                   q \in SeqsUpTo(ValidElements, MaxBatch - 1)}

ImportInputs == {InvalidText, ObjectText} \cup {ArrayText(a) : a \in ArrayInputs}

\* what localStorage holds before the repository is constructed
InitialStorage ==
    {NoItem, InvalidText, ObjectText}
    \cup {ArrayText(a) : a \in
            {<<>>,
             <<Element(Record("t1", Str(sA), FALSE, 1, 0)),
               Element(Record("t2", Str(sB), TRUE, 2, 1))>>,
             <<Element(Record("t2", Str(sBlank), FALSE, 1, 0)),
               Element(Record("t1", Str(sPaddedB), TRUE, 2, 1)),
               NullElement>>,
             <<Element(Record("t1", Str(sA), FALSE, 1, 0)),
               Element(Record("t2", Str(sTooLong), TRUE, 2, 1)),
               Element(Record("t1", Str(sB), TRUE, 2, 0))>>}}

\* Task instances handed to save and saveMany directly
TaskInputs ==
    {[id |-> "t1", title |-> sA, completed |-> FALSE, createdAt |-> 1, order |-> 1],
     [id |-> "t1", title |-> sB, completed |-> TRUE, createdAt |-> 2, order |-> 0],
     [id |-> "t2", title |-> sB, completed |-> TRUE, createdAt |-> 1, order |-> 0]}

ObjectInputs ==
    {Instance(t) : t \in TaskInputs}
    \cup {PlainObject([id |-> "t2", title |-> sA, completed |-> FALSE,
                       createdAt |-> 1, order |-> 0])}

UpdateInputs ==
    [title : {None, Some(Str(sPaddedB)), Some(Str(sTooLong))},
     completed : {None, Some(TRUE), Some(FALSE)},
     order : {None, Some(1)}]

ReorderInputs ==
    {NotAnArray}
    \cup {Array(q) : q \in SeqsUpTo({[id |-> "t1", order |-> Some(1)],
                                       [id |-> "t2", order |-> Some(0)]}, MaxBatch)}

IdListInputs == {NotAnArray} \cup {Array(q) : q \in SeqsUpTo(Ids, MaxBatch)}

BatchInputs == {NotAnArray} \cup {Array(q) : q \in SeqsUpTo(ObjectInputs, MaxBatch)}

\* titles of several runs, in both cases
sMixed == <<Run("a", 1), Run("B", 1), Run(" ", 1), Run("b", 1)>>
sAa == <<Run("A", 1), Run("a", 1)>>

SearchTitles == {sA, sB, sMixed, sAa}

\* terms: no string, empty, blank, one letter, padded and in the other case,
\* as long as the longest title, and longer
SearchTerms ==
    {Undefined, Number, Str(<<>>), Str(sBlank),
     Str(<<Run("A", 1)>>),
     Str(<<Run(" ", 1), Run("B", 1), Run(" ", 1), Run("B", 1), Run(" ", 2)>>),
     Str(<<Run("a", 2)>>),
     Str(<<Run("b", 1), Run("a", 1)>>),
     Str(<<Run("b", MaxTitleLength)>>),
     Str(sTooLong)}

\* texts handed to importTasks: unparsable, a record with a padded title,
\* and arrays whose last record has a title that is too long or blank
ImportTasksInputs ==
    {InvalidText,
     ArrayText(<<Element(Record("t1", Str(sPaddedB), TRUE, 2, 1))>>),
     ArrayText(<<Element(Record("t1", Str(sA), FALSE, 1, 0)),
                 Element(Record("t2", Str(sTooLong), TRUE, 2, 1))>>),
     ArrayText(<<Element(Record("t2", Str(sBlank), TRUE, 2, 1))>>)}

\* what new Task(...) is handed: any of id, completed, createdAt and order
\* may be left out
TaskDataInputs ==
    [id : {None, Some("t1")}, title : {Str(sA), Str(sPaddedB)},
     completed : {None, Some(TRUE), Some(FALSE)}, createdAt : {None, Some(1)},
     order : {None, Some(1)}]

-----------------------------------------------------------------------------
(* The state machine: one action per public call *)

NoCall ==
    [op |-> "none", method |-> "none", status |-> "ok", error |-> "",
     ret |-> None, writes |-> <<>>]

Init ==
    /\ tasks = <<>>
    /\ initialized = FALSE
    /\ localStorage \in InitialStorage
    /\ result = NoCall

\* the state after a call that ended as o
Apply(op, outcome) ==
    \E o \in {outcome} :
        /\ tasks' = o.tasks
        /\ localStorage' = o.storage
        /\ result' = [op |-> op, method |-> o.method, status |-> o.status,
                      error |-> o.error, ret |-> o.ret, writes |-> o.writes]
        /\ UNCHANGED initialized

\* the state after a query that ended as r
Answer(op, r) ==
    Apply(op, Query(tasks, localStorage, IF r.threw THEN "error" ELSE "ok",
                    r.error, r.value))

\* new TaskRepository(): also what a reload of the page does
Constructor ==
    /\ tasks' = initialize(localStorage)
    /\ initialized' = TRUE
    /\ result' = [NoCall EXCEPT !.op = "constructor"]
    /\ UNCHANGED localStorage

Save ==
    /\ initialized
    /\ \E obj \in ObjectInputs, setItemOk \in BOOLEAN :
           Apply("save", save(tasks, localStorage, obj, setItemOk))

Delete ==
    /\ initialized
    /\ \E id \in Ids, setItemOk \in BOOLEAN :
           Apply("delete", delete(tasks, localStorage, id, setItemOk))

DeleteMany ==
    /\ initialized
    /\ \E ids \in IdListInputs, setItemOk \in BOOLEAN :
           Apply("deleteMany", deleteMany(tasks, localStorage, ids, setItemOk))

SaveMany ==
    /\ initialized
    /\ \E objs \in BatchInputs, setItemOk \in BOOLEAN :
           Apply("saveMany", saveMany(tasks, localStorage, objs, setItemOk))

Clear ==
    /\ initialized
    /\ \E setItemOk \in BOOLEAN :
           Apply("clear", clear(tasks, localStorage, setItemOk))

Export ==
    /\ initialized
    /\ Answer("export", Returned(export(tasks)))

ImportOf(jsonString, firstOk, secondOk) ==
    /\ initialized
    /\ Apply("import", import(tasks, localStorage, jsonString, firstOk, secondOk))

\* import of a given text, or of the text export() has just returned; the
\* second setItem is called only after the first has returned
Import ==
    \E jsonString \in ImportInputs \cup {export(tasks)}, firstOk \in BOOLEAN :
        \E secondOk \in IF firstOk THEN BOOLEAN ELSE {FALSE} :
            ImportOf(jsonString, firstOk, secondOk)

\* randomUUID() returns an id no stored task has
CreateTask ==
    /\ initialized
    /\ \E title \in TitleInputs, now \in Times, setItemOk \in BOOLEAN :
       \E uuid \in {id \in Ids : ~MapHas(tasks, id)} :
           Apply("createTask", createTask(tasks, localStorage, title, uuid, now, setItemOk))

UpdateTask ==
    /\ initialized
    /\ \E taskId \in Ids, updates \in UpdateInputs, setItemOk \in BOOLEAN :
           Apply("updateTask", updateTask(tasks, localStorage, taskId, updates, setItemOk))

ToggleTaskCompletion ==
    /\ initialized
    /\ \E taskId \in Ids, setItemOk \in BOOLEAN :
           Apply("toggleTaskCompletion",
                 toggleTaskCompletion(tasks, localStorage, taskId, setItemOk))

ReorderTasksOf(reorderedTasks, setItemOk) ==
    /\ initialized
    /\ Apply("reorderTasks", reorderTasks(tasks, localStorage, reorderedTasks, setItemOk))

ReorderTasks ==
    \E reorderedTasks \in ReorderInputs, setItemOk \in BOOLEAN :
        ReorderTasksOf(reorderedTasks, setItemOk)

DeleteTask ==
    /\ initialized
    /\ \E taskId \in Ids, setItemOk \in BOOLEAN :
           Apply("deleteTask", deleteTask(tasks, localStorage, taskId, setItemOk))

ClearCompleted ==
    /\ initialized
    /\ \E setItemOk \in BOOLEAN :
           Apply("clearCompleted", clearCompleted(tasks, localStorage, setItemOk))

GetTasksSortedOf(sortedBy, filter) ==
    /\ initialized
    /\ Answer("getTasksSorted", getTasksSorted(tasks, sortedBy, filter))

GetTasksSorted ==
    \E sortedBy \in SortNames \cup {"priority"}, filter \in FilterNames \cup {"done"} :
        GetTasksSortedOf(sortedBy, filter)

GetStatistics ==
    /\ initialized
    /\ Answer("getStatistics", getStatistics(tasks))

\* calls on the TaskRepository
Next ==
    \/ Constructor
    \/ Save
    \/ Delete
    \/ DeleteMany
    \/ SaveMany
    \/ Clear
    \/ Export
    \/ Import

Spec == Init /\ [][Next]_vars

\* calls on a TaskService over the TaskRepository that change the collection
ServiceNext ==
    \/ Constructor
    \/ CreateTask
    \/ UpdateTask
    \/ ToggleTaskCompletion
    \/ ReorderTasks
    \/ DeleteTask
    \/ ClearCompleted

ServiceSpec == Init /\ [][ServiceNext]_vars

\* the queries of a TaskService, over every collection of up to three tasks
QueryKeys == {<<1, 0>>, <<1, 2>>, <<2, 1>>, <<2, 0>>}

QueryTasks(id) ==
    {[id |-> id, title |-> title, completed |-> completed,
      createdAt |-> key[1], order |-> key[2]] :
        title \in {sA, sB}, completed \in BOOLEAN, key \in QueryKeys}

QueryCollections ==
    {<<>>}
    \cup {<<a>> : a \in QueryTasks("t1")}
    \cup {<<a, b>> : a \in QueryTasks("t1"), b \in QueryTasks("t2")}
    \cup {<<a, b, c>> : a \in QueryTasks("t1"), b \in QueryTasks("t2"),
                        c \in QueryTasks("t3")}

QueryInit ==
    /\ tasks \in QueryCollections
    /\ initialized = TRUE
    /\ localStorage = persist(tasks, NoItem, TRUE).storage
    /\ result = NoCall

QueryNext ==
    \/ GetTasksSorted
    \/ GetStatistics

QuerySpec == QueryInit /\ [][QueryNext]_vars

ImportTasks ==
    /\ initialized
    /\ \E jsonString \in ImportTasksInputs, firstOk \in BOOLEAN :
       \E secondOk \in IF firstOk THEN BOOLEAN ELSE {FALSE} :
           Apply("importTasks", import(tasks, localStorage, jsonString, firstOk, secondOk))

\* the calls on a TaskService that construct a Task or put one into the
\* collection, and deleteTask
TitledNext ==
    \/ Constructor
    \/ CreateTask
    \/ UpdateTask
    \/ ReorderTasks
    \/ DeleteTask
    \/ ImportTasks

TitledSpec == Init /\ [][TitledNext]_vars

\* the lookups of a TaskService, over collections of up to two tasks
SearchTasks ==
    /\ initialized
    /\ \E searchTerm \in SearchTerms :
           Answer("searchTasks", searchTasks(tasks, searchTerm))

GetTaskById ==
    /\ initialized
    /\ \E taskId \in Ids \cup {"t3"} :
           Answer("getTaskById", Returned(getTaskById(tasks, taskId)))

SearchCollections ==
    LET first == {[id |-> "t1", title |-> title, completed |-> FALSE,
                   createdAt |-> 1, order |-> 0] : title \in SearchTitles}
        second == {[id |-> "t2", title |-> title, completed |-> TRUE,
                    createdAt |-> 2, order |-> 1] : title \in SearchTitles}
    IN  {<<>>} \cup {<<a>> : a \in first}
        \cup {<<a, b>> : a \in first, b \in second}
        \cup {<<b, a>> : a \in first, b \in second}

SearchInit ==
    /\ tasks \in SearchCollections
    /\ initialized = TRUE
    /\ localStorage = persist(tasks, NoItem, TRUE).storage
    /\ result = NoCall

SearchNext ==
    \/ SearchTasks
    \/ GetTaskById

SearchSpec == SearchInit /\ [][SearchNext]_vars

\* calls on one Task instance, held in tasks; the methods of a Task assign
\* none of its fields
UpdateTitle ==
    /\ Len(tasks) = 1
    /\ \E newTitle \in TitleInputs :
           Answer("updateTitle", updateTitle(tasks[1], newTitle))

UpdateOrder ==
    /\ Len(tasks) = 1
    /\ \E newOrder \in {None, Some(0), Some(1)} :
           Answer("updateOrder", updateOrder(tasks[1], newOrder))

ToggleCompleted ==
    /\ Len(tasks) = 1
    /\ Answer("toggleCompleted", toggleCompleted(tasks[1]))

\* every Task the constructor makes of the inputs
TaskInit ==
    /\ tasks \in {<<Task(data, "t2", 2).value>> : data \in TaskDataInputs}
    /\ initialized = FALSE
    /\ localStorage = NoItem
    /\ result = NoCall

TaskNext ==
    \/ UpdateTitle
    \/ UpdateOrder
    \/ ToggleCompleted

TaskSpec == TaskInit /\ [][TaskNext]_vars

-----------------------------------------------------------------------------
(* What the properties below speak of *)

MutatingMethods == {"save", "saveMany", "delete", "deleteMany", "clear", "import"}

\* the (id, title, completed, createdAt, order) tuples of a collection
TupleSet(m) == {m[i] : i \in 1..Len(m)}

DistinctIds(m) == \A i, j \in 1..Len(m) : m[i].id = m[j].id => i = j

AllFailed(writes) == \A i \in 1..Len(writes) : ~writes[i]

\* the runs of a string that are not spaces
Inked(str) == {i \in 1..Len(str) : str[i].ch # " "}

First(S) == CHOOSE i \in S : \A j \in S : i <= j
Last(S) == CHOOSE i \in S : \A j \in S : j <= i

RECURSIVE CharsBetween(_, _, _)
CharsBetween(str, i, j) ==
    IF i > j THEN 0 ELSE str[i].n + CharsBetween(str, i + 1, j)

\* a title value a Task can be made of: a string with a character that is
\* no space, and at most MaxTitleLength characters from its first such
\* character to its last
IsValidTitle(v) ==
    /\ v.type = "string"
    /\ Inked(v.str) # {}
    /\ CharsBetween(v.str, First(Inked(v.str)), Last(Inked(v.str))) <= MaxTitleLength

\* the string between the first and the last character that is no space
Trimmed(str) == SubSeq(str, First(Inked(str)), Last(Inked(str)))

\* the Task a record of the persisted format stands for
TaskOfRecord(f) ==
    [id |-> f.id[1], title |-> Trimmed(f.title.str), completed |-> f.completed[1],
     createdAt |-> f.createdAt[1], order |-> f.order[1]]

IsValidElement(e) == e.type = "object" /\ IsValidTitle(e.fields.title)

-----------------------------------------------------------------------------
C2_MirrorAfterSuccess ==
    (result.method \in MutatingMethods /\ result.status = "ok")
        => TupleSet(initialize(localStorage)) = TupleSet(tasks)

(* C3: a mutating Repository call that raises leaves the in-memory         *)
(* collection and the persisted text as they were before the call.         *)
C3_FailedCallChangesNothing ==
    [][(result'.method \in MutatingMethods /\ result'.status = "error")
         => /\ TupleSet(tasks') = TupleSet(tasks)
            /\ localStorage' = localStorage]_vars

\* a text that export() returns for some collection, and that collection
ExportedCollection(text) ==
    [i \in 1..Len(text.items) |-> TaskOfRecord(text.items[i].fields)]

IsExport(text) ==
    /\ text.json = "array"
    /\ \A i \in 1..Len(text.items) : IsValidElement(text.items[i])
    /\ DistinctIds(ExportedCollection(text))
    /\ export(ExportedCollection(text)) = text

(* C4: with storage writes succeeding, importing a text that export()      *)
(* returned (of the collection held, or of another one) returns the size   *)
(* of the exported collection and leaves exactly its tuples.               *)
C4_ExportImportRoundTrip ==
    \A text \in ImportInputs \cup {export(tasks)} :
        IsExport(text)
          => LET o == import(tasks, localStorage, text, TRUE, TRUE) IN
             /\ o.status = "ok"
             /\ o.ret = Len(ExportedCollection(text))
             /\ TupleSet(o.tasks) = TupleSet(ExportedCollection(text))
             /\ DistinctIds(o.tasks)

C4_Witness ==
    /\ result.method = "import"
    /\ result.status = "ok"
    /\ result.ret = 2
    /\ tasks[1].id = "t2"
    /\ tasks[2].completed # tasks[1].completed

(* C5: reorderTasks with an id that is not stored fails with the not-found *)
(* error, writes nothing, and leaves collection and persisted text as      *)
(* they were, also when ids earlier in the list are stored.                *)
C5_ReorderAppliesNothingPartially ==
    \A list \in ReorderInputs, setItemOk \in BOOLEAN :
        (/\ list.isArray
         /\ \E i \in 1..Len(list.items) :
              list.items[i].id \notin {t.id : t \in TupleSet(tasks)})
          => LET o == reorderTasks(tasks, localStorage, list, setItemOk) IN
             /\ o.status = "error"
             /\ o.error = NotFound
             /\ o.writes = <<>>
             /\ o.tasks = tasks
             /\ o.storage = localStorage

C5_Witness ==
    /\ result.op = "reorderTasks"
    /\ result.error = NotFound
    /\ Len(tasks) = 1

(* C6: import of a text that is no array, or that has an element without a *)
(* valid title, raises, writes nothing and leaves collection and persisted *)
(* text as they were.                                                      *)
C6_ImportAllOrNothing ==
    \A text \in ImportInputs, firstOk, secondOk \in BOOLEAN :
        (\/ text.json # "array"
         \/ \E i \in 1..Len(text.items) : ~IsValidElement(text.items[i]))
          => LET o == import(tasks, localStorage, text, firstOk, secondOk) IN
             /\ o.status = "error"
             /\ o.writes = <<>>
             /\ o.tasks = tasks
             /\ o.storage = localStorage

C6_Witness ==
    /\ result.method = "import"
    /\ result.status = "error"
    /\ result.writes = <<>>
    /\ Len(tasks) = 1

\* the elements of a stored array that load keeps: of valid title, and not
\* followed by another such element with the same id
Kept(items) ==
    {i \in 1..Len(items) :
        /\ IsValidElement(items[i])
        /\ \A j \in (i + 1)..Len(items) :
             IsValidElement(items[j]) => items[j].fields.id # items[i].fields.id}

(* C7: constructing a repository never raises; over an absent, unparsable  *)
(* or non-array value the collection is empty, otherwise it holds exactly  *)
(* the records with a valid title, a later one replacing an earlier one    *)
(* with the same id.                                                       *)
C7_LenientLoad ==
    [][result'.op = "constructor"
         => /\ result'.status = "ok"
            /\ initialized'
            /\ localStorage' = localStorage
            /\ DistinctIds(tasks')
            /\ IF localStorage.json # "array" THEN tasks' = <<>>
               ELSE TupleSet(tasks') =
                      {TaskOfRecord(localStorage.items[i].fields) :
                          i \in Kept(localStorage.items)}]_vars

C7_Witness ==
    /\ result.op = "constructor"
    /\ Len(localStorage.items) = 3
    /\ Len(tasks) = 1
    /\ tasks[1].title = sB

(* C8: clear() on an empty collection returns 0 and writes nothing; on a   *)
(* non-empty one, with the write succeeding, it returns the previous size  *)
(* and leaves the collection empty.                                        *)
C8_ClearOnEmptyIsNoOp ==
    [][result'.method = "clear"
         => IF tasks = <<>>
            THEN /\ result'.status = "ok"
                 /\ result'.ret = 0
                 /\ result'.writes = <<>>
                 /\ tasks' = <<>>
                 /\ localStorage' = localStorage
            ELSE result'.writes = <<TRUE>>
                   => /\ result'.status = "ok"
                      /\ result'.ret = Len(tasks)
                      /\ tasks' = <<>>]_vars

C8_Witness ==
    /\ result.method = "clear"
    /\ result.status = "ok"
    /\ result.ret = 0
    /\ result.writes = <<>>
    /\ tasks = <<>>

\* whether a comes no later than b by the sort key
KeyOrdered(sortedBy, a, b) ==
    CASE sortedBy = "title" -> localeCompare(a.title, b.title) <= 0
      [] sortedBy = "createdAt" -> a.createdAt <= b.createdAt
      [] sortedBy = "order" -> a.order <= b.order

Satisfies(filter, t) ==
    CASE filter = "all" -> TRUE
      [] filter = "completed" -> t.completed = TRUE
      [] filter = "pending" -> t.completed = FALSE

(* C9: getTasksSorted(sortBy, filter) returns exactly the stored tasks     *)
(* that satisfy the filter, each once, in non-decreasing order of the sort *)
(* key, and leaves the stored collection as it was.                        *)
C9_FilterThenSort ==
    /\ [](\A sortedBy \in {"title", "createdAt", "order"},
             filter \in {"all", "completed", "pending"} :
            LET r == getTasksSorted(tasks, sortedBy, filter) IN
            /\ ~r.threw
            /\ TupleSet(r.value) = {t \in TupleSet(tasks) : Satisfies(filter, t)}
            /\ DistinctIds(r.value)
            /\ \A i, j \in 1..Len(r.value) :
                 i < j => KeyOrdered(sortedBy, r.value[i], r.value[j]))
    /\ [][result'.op = "getTasksSorted"
            => tasks' = tasks /\ localStorage' = localStorage]_vars

C9_Witness ==
    /\ result.op = "getTasksSorted"
    /\ result.status = "ok"
    /\ Len(tasks) = 3
    /\ <<tasks[1].order, tasks[2].order, tasks[3].order>> = <<2, 1, 0>>
    /\ <<tasks[1].completed, tasks[2].completed, tasks[3].completed>> = <<FALSE, TRUE, FALSE>>
    /\ Len(result.ret) = 2
    /\ <<result.ret[1].id, result.ret[2].id>> = <<"t3", "t1">>

(* C10: getStatistics() returns total, completed, pending = total -        *)
(* completed and completionRate = the integer nearest to 100 * completed / *)
(* total (0 for no tasks).                                                 *)
C10_ServiceStatistics ==
    result.op = "getStatistics"
        => /\ result.status = "ok"
           /\ result.ret.total = Len(tasks)
           /\ result.ret.completed = Cardinality({t \in TupleSet(tasks) : t.completed})
           /\ result.ret.pending = result.ret.total - result.ret.completed
           /\ \/ result.ret.total = 0 /\ result.ret.completionRate = 0
              \/ /\ result.ret.total > 0
                 /\ 2 * result.ret.total * result.ret.completionRate
                      <= 200 * result.ret.completed + result.ret.total
                 /\ 2 * result.ret.total * result.ret.completionRate
                      > 200 * result.ret.completed - result.ret.total

(* C11: toggleCompleted() of any Task returns a Task with the same id,      *)
(* title, createdAt and order and the opposite completed value, leaves the *)
(* Task it was called on as it was, and toggling the returned Task gives a *)
(* Task equal to the first in all five fields.                             *)
C11_ToggleImmutability ==
    /\ [](\A i \in 1..Len(tasks) :
            LET t == tasks[i]
                once == toggleCompleted(t)
            IN  /\ ~once.threw
                /\ once.value.id = t.id
                /\ once.value.title = t.title
                /\ once.value.createdAt = t.createdAt
                /\ once.value.order = t.order
                /\ once.value.completed = ~t.completed
                /\ toggleCompleted(once.value) = Returned(t))
    /\ [][result'.op = "toggleCompleted"
            => /\ tasks' = tasks
               /\ result'.status = "ok"
               /\ result'.ret.id = tasks[1].id
               /\ result'.ret.completed = ~tasks[1].completed]_vars

C11_Witness ==
    /\ result.op = "toggleCompleted"
    /\ result.status = "ok"
    /\ Len(tasks) = 1
    /\ tasks[1].completed
    /\ tasks[1].order = 1
    /\ tasks[1].id = "t1"
    /\ ~result.ret.completed
    /\ result.ret.order = 1

\* the character at position p of a string of runs
RECURSIVE CharAt(_, _)
CharAt(str, p) ==
    IF p <= Head(str).n THEN Head(str).ch ELSE CharAt(Tail(str), p - Head(str).n)

SameIgnoringCase(c, d) == c = d \/ {c, d} = {"a", "A"} \/ {c, d} = {"b", "B"}

\* whether part, compared case-insensitively, is a substring of str
ContainsIgnoringCase(str, part) ==
    \E offset \in 0..(Length(str) - Length(part)) :
        \A p \in 1..Length(part) :
            SameIgnoringCase(CharAt(str, offset + p), CharAt(part, p))

\* a string without the spaces at its ends
TrimmedTerm(str) == IF Inked(str) = {} THEN <<>> ELSE Trimmed(str)

(* C12: searchTasks(term) returns an empty sequence without raising when   *)
(* term is no string or the empty string; otherwise it returns, each once, *)
(* exactly the stored tasks whose title contains the trimmed term as a     *)
(* substring when both are compared case-insensitively.                    *)
C12_Search ==
    \A term \in SearchTerms :
        LET r == searchTasks(tasks, term) IN
        /\ ~r.threw
        /\ DistinctIds(r.value)
        /\ IF term.type # "string" \/ term.str = <<>> THEN r.value = <<>>
           ELSE TupleSet(r.value) =
                  {t \in TupleSet(tasks) :
                      ContainsIgnoringCase(t.title, TrimmedTerm(term.str))}

C12_Witness ==
    /\ result.op = "searchTasks"
    /\ result.status = "ok"
    /\ Len(tasks) = 2
    /\ tasks[1].title = sA
    /\ tasks[2].title = sMixed
    /\ Len(result.ret) = 1
    /\ result.ret[1].title = sMixed

\* a call that ended o raised the not-found error, wrote nothing and left
\* collection and persisted text as they are
FailedAsMissing(o) ==
    /\ o.status = "error"
    /\ o.error = NotFound
    /\ o.writes = <<>>
    /\ o.tasks = tasks
    /\ o.storage = localStorage

(* C13: for an id that is not in the collection, updateTask,               *)
(* toggleTaskCompletion and deleteTask fail with the not-found error,      *)
(* write nothing and leave collection and persisted text as they were;     *)
(* getTaskById returns null.                                               *)
C13_MissingIdFailsCleanly ==
    \A taskId \in Ids \cup {"t3"} :
        ~MapHas(tasks, taskId)
          => /\ \A updates \in UpdateInputs, setItemOk \in BOOLEAN :
                  FailedAsMissing(updateTask(tasks, localStorage, taskId, updates, setItemOk))
             /\ \A setItemOk \in BOOLEAN :
                  /\ FailedAsMissing(toggleTaskCompletion(tasks, localStorage, taskId, setItemOk))
                  /\ FailedAsMissing(deleteTask(tasks, localStorage, taskId, setItemOk))
             /\ getTaskById(tasks, taskId) = None

C13_Witness ==
    /\ result.op = "deleteTask"
    /\ result.status = "error"
    /\ result.error = NotFound
    /\ result.writes = <<>>
    /\ Len(tasks) = 1

\* updates naming any of title, completed and order, the title valid or not
RequestedUpdates ==
    [title : {None} \cup {Some(title) : title \in TitleInputs \ {Undefined}},
     completed : {None, Some(TRUE), Some(FALSE)},
     order : {None, Some(0), Some(1)}]

\* the requested value of a field, or the one it had
Requested(option, had) == IF option = None THEN had ELSE option[1]

(* C14: updateTask of a stored id with a valid title (or none) and the     *)
(* write succeeding leaves under that id a task with the requested title   *)
(* trimmed, the requested completed and the requested order, each as it    *)
(* was when not requested, id and createdAt as they were, and every other  *)
(* task as it was; with an invalid title it fails and leaves collection    *)
(* and persisted text as they were.                                        *)
C14_UpdateTaskResult ==
    \A taskId \in Ids, updates \in RequestedUpdates :
        MapHas(tasks, taskId)
          => IF updates.title # None /\ ~IsValidTitle(updates.title[1])
             THEN \A setItemOk \in BOOLEAN :
                  \A o \in {updateTask(tasks, localStorage, taskId, updates, setItemOk)} :
                     /\ o.status = "error"
                     /\ o.writes = <<>>
                     /\ o.tasks = tasks
                     /\ o.storage = localStorage
             ELSE \A o \in {updateTask(tasks, localStorage, taskId, updates, TRUE)},
                     had \in {MapGet(tasks, taskId)} :
                      /\ o.status = "ok"
                      /\ Len(o.tasks) = Len(tasks)
                      /\ \A i \in 1..Len(tasks) :
                           IF tasks[i].id # taskId THEN o.tasks[i] = tasks[i]
                           ELSE /\ o.tasks[i].id = taskId
                                /\ o.tasks[i].createdAt = had.createdAt
                                /\ o.tasks[i].title =
                                     IF updates.title = None THEN had.title
                                     ELSE Trimmed(updates.title[1].str)
                                /\ o.tasks[i].completed = Requested(updates.completed, had.completed)
                                /\ o.tasks[i].order = Requested(updates.order, had.order)

C14_Witness ==
    /\ result.op = "updateTask"
    /\ result.status = "ok"
    /\ Len(tasks) = 2
    /\ result.ret = tasks[1]
    /\ tasks[1].title = sB
    /\ tasks[1].completed
    /\ tasks[1].order = 1
    /\ tasks[2].title = sA
    /\ ~tasks[2].completed

(* C15: with the write succeeding, clearCompleted() returns the number of  *)
(* tasks that were completed, and leaves exactly the tasks that were       *)
(* pending, each as it was; when no task is completed it returns 0, writes *)
(* nothing and changes nothing.                                            *)
C15_ClearCompletedPostcondition ==
    LET completedBefore == {t \in TupleSet(tasks) : t.completed}
        pendingBefore == {t \in TupleSet(tasks) : ~t.completed}
    IN  IF completedBefore = {}
        THEN \A setItemOk \in BOOLEAN :
             \A o \in {clearCompleted(tasks, localStorage, setItemOk)} :
                /\ o.status = "ok"
                /\ o.ret = 0
                /\ o.writes = <<>>
                /\ o.tasks = tasks
                /\ o.storage = localStorage
        ELSE \A o \in {clearCompleted(tasks, localStorage, TRUE)} :
                /\ o.status = "ok"
                /\ o.writes = <<TRUE>>
                /\ o.ret = Cardinality(completedBefore)
                /\ \A i \in 1..Len(o.tasks) : ~o.tasks[i].completed
                /\ TupleSet(o.tasks) = pendingBefore
                /\ DistinctIds(o.tasks)

C15_Witness ==
    /\ result.op = "clearCompleted"
    /\ result.status = "ok"
    /\ result.ret = 1
    /\ result.writes = <<TRUE>>
    /\ Len(tasks) = 1
    /\ ~tasks[1].completed

(* C16: over every call of the Service, a task id that stays in the        *)
(* collection keeps the createdAt stored for it, the task found under it   *)
(* has that id, and the task updateTask or toggleTaskCompletion returns    *)
(* has the id and the createdAt of a task that was stored.                 *)
C16_IdentityAndCreationStable ==
    [][/\ \A i \in 1..Len(tasks) :
            MapHas(tasks', tasks[i].id)
              => /\ MapGet(tasks', tasks[i].id).id = tasks[i].id
                 /\ MapGet(tasks', tasks[i].id).createdAt = tasks[i].createdAt
       /\ (result'.op \in {"updateTask", "toggleTaskCompletion"} /\ result'.status = "ok")
            => /\ MapHas(tasks, result'.ret.id)
               /\ result'.ret.createdAt = MapGet(tasks, result'.ret.id).createdAt]_vars

C16_Witness ==
    /\ result.op = "reorderTasks"
    /\ result.status = "ok"
    /\ result.ret = 2
    /\ Len(tasks) = 2
    /\ tasks[1].createdAt = 2
    /\ tasks[1].order = 1
    /\ tasks[2].createdAt = 1
    /\ tasks[2].order = 0

(* C17: in every reachable state every task of the in-memory collection  *)
(* has a title that is a non-empty string without spaces at its ends and   *)
(* of at most 200 characters.                                              *)
C17_StoredTitlesValid ==
    \A i \in 1..Len(tasks) :
        /\ tasks[i].title # <<>>
        /\ Inked(tasks[i].title) # {}
        /\ Trimmed(tasks[i].title) = tasks[i].title
        /\ CharsBetween(tasks[i].title, 1, Len(tasks[i].title)) <= 200

C17_Witness ==
    /\ result.op = "importTasks"
    /\ result.status = "error"
    /\ result.writes = <<>>
    /\ Len(tasks) = 2
    /\ tasks[1].title = sB
    /\ tasks[2].title = sA

\* a call that ended o returned ret, wrote nothing and changed nothing
NothingDone(o, ret) ==
    /\ o.status = "ok"
    /\ o.ret = ret
    /\ o.writes = <<>>
    /\ o.tasks = tasks
    /\ o.storage = localStorage

C19_SaveManyRejectsWholeBatch ==
    \A objs \in BatchInputs \ {NotAnArray}, setItemOk \in BOOLEAN :
        (\E i \in 1..Len(objs.items) : ~objs.items[i].instanceOfTask)
          => \A o \in {saveMany(tasks, localStorage, objs, setItemOk)} :
                /\ o.status = "error"
                /\ o.writes = <<>>
                /\ o.tasks = tasks
                /\ o.storage = localStorage

C19_Witness ==
    /\ result.op = "saveMany"
    /\ result.status = "error"
    /\ result.error = "Falha ao salvar multiplas tarefas"
    /\ result.writes = <<>>
    /\ Len(tasks) = 1
    /\ tasks[1].id = "t1"
    /\ tasks[1].title = sA

(* C20: after a mutating Repository call that raises because a storage     *)
(* write failed, findAll() returns the stored tasks in the same order as   *)
(* before the call.                                                        *)
C20_RollbackKeepsOrder ==
    [][(/\ result'.method \in MutatingMethods
        /\ result'.status = "error"
        /\ result'.writes # <<>>)
         => findAll(tasks') = findAll(tasks)]_vars

====
